---- MODULE Spec2Model ----
(***************************************************************************)
(* Pool statistics of the margin application: the pool and user_pool       *)
(* tables, the pool_statistic_view query of _PoolStatisticViewQueryBuilder *)
(* and PoolCRUD.fetch_all_with_amount_delta.                               *)
(*                                                                         *)
(* Time is counted in seconds.  Amounts (Decimal) are integers.  A value   *)
(* of a nullable SQL expression is a record [null, val].                   *)
(***************************************************************************)
EXTENDS Integers, Sequences, FiniteSets, TLC

VARIABLES
    pool,        \* table pool: sequence of rows, a row's id is its index
    user_pool,   \* table user_pool: sequence of rows, a row's id is its index
    now,         \* the clock (datetime.now / SQL now()), in seconds
    view_now,    \* datetime.now(UTC) frozen into the view query when it was built
    ret,         \* what the last operation returned
    view_names,  \* the views in the catalog: sa.inspect(bind).get_view_names()
    has_tables,  \* whether the tables of the metadata exist
    session,     \* the open session of a writer: what it holds uncommitted
    reader,      \* per reader, the statistics statement it has in flight
    interval_delta, \* RangeInterval: the timedelta delta
    type_,       \* RangeInterval: the RangeType
    range_interval, \* RangeInterval: the int value constructed, <<>> before
    margin_position, \* table margin_position: sequence of rows, id is the index
    blacklisted_tokens, \* TokenBlacklistService._blacklisted_tokens
    cookies,     \* the cookies the admin's client holds
    range_,      \* Over: the range_ tuple given to _interpret_range
    frame,       \* Over: what _interpret_range returned, <<>> before
    setup        \* per schema process, where it is in its DDL

\* the state outside the pool statistics
ext_vars == <<margin_position, blacklisted_tokens, cookies, range_, frame, setup>>

\* the state the operations on pools and contributions leave alone
non_pool_vars ==
    <<view_names, has_tables, session, reader, interval_delta, type_, range_interval,
      ext_vars>>

vars == <<pool, user_pool, now, view_now, ret, non_pool_vars>>

----------------------------------------------------------------------------
(* Bounds and input sets *)

MaxPools == 2
MaxUserPools == 2

Hour == 3600

\* inputs of create_pool (token, risk_status)
PoolInputs == {<<"BTC", "low">>, <<"ETH", "high">>}
UserIds == {"u1"}
Amounts == {0, 100}
\* ages of the rows a session inserts with an explicit created_at
Ages == {48 * Hour, 72 * Hour + 1}
\* instants the clock is observed at, in seconds after the view was built
Instants == {1}
\* amount_for_delta values of fetch_all_with_amount_delta
Deltas == {24 * Hour, 48 * Hour}

\* the amounts of the rows a test session inserts together
MockAmounts == {100, 150, 200, 300}
\* the user_pools of one mock pool, as <<amount, hours before now>>
MockUserPools ==
    {<<<<a, 50>>, <<b, 30>>>> : a, b \in MockAmounts}
    \cup {<<<<100, 80>>, <<150, 50>>, <<200, 20>>, <<300, 1>>>>,
          <<<<100, 71>>, <<150, 47>>, <<200, 23>>, <<300, 0>>>>}
\* instants the clock is observed at in sessions with mock pools
MockInstants == {1, 8 * Hour}

----------------------------------------------------------------------------
(* SQL values *)

NULL == [null |-> TRUE, val |-> 0]
Num(v) == [null |-> FALSE, val |-> v]

\* a - b in SQL: null when either side is null
Minus(a, b) == IF a.null \/ b.null THEN NULL ELSE Num(a.val - b.val)

\* coalesce(a, d)
coalesce(a, d) == IF a.null THEN Num(d) ELSE a

PoolIds == DOMAIN pool
UserPoolIds == DOMAIN user_pool

\* the user_pool rows of one pool (WHERE pool_id = p / PARTITION BY pool_id)
RowsOf(p) == {i \in UserPoolIds : user_pool[i].pool_id = p}

\* the rows of S that come first under ORDER BY created_at ASC; rows with
\* equal created_at are peers and any of them may come first
FirstAsc(S) == {i \in S : \A j \in S : user_pool[i].created_at <= user_pool[j].created_at}

\* the rows of S that come first under ORDER BY created_at DESC
FirstDesc(S) == {i \in S : \A j \in S : user_pool[i].created_at >= user_pool[j].created_at}

\* the functions that pick one element of F[x] for every x
RECURSIVE Choices(_)
Choices(F) ==
    IF DOMAIN F = {} THEN {<<>>}
    ELSE LET x == CHOOSE y \in DOMAIN F : TRUE
             rest == Choices([y \in DOMAIN F \ {x} |-> F[y]])
         IN {(x :> v) @@ r : v \in F[x], r \in rest}

----------------------------------------------------------------------------
(* pool_statistic_view: _PoolStatisticViewQueryBuilder *)

\* first_value(amount) OVER (PARTITION BY pool_id ORDER BY created_at DESC)
latest_amount(p) == {Num(user_pool[i].amount) : i \in FirstDesc(RowsOf(p))}

\* oldest_amount ordered the wrong way round
oldest_amount_desc(p) == {Num(user_pool[i].amount) : i \in FirstDesc(RowsOf(p))}

\* first_value(amount) OVER (PARTITION BY pool_id ORDER BY created_at ASC)
oldest_amount(p) == {Num(user_pool[i].amount) : i \in FirstAsc(RowsOf(p))}

\* the filter with <= in the place of >=
WithinHoursBefore(p, within_hours) ==
    {i \in RowsOf(p) : user_pool[i].created_at <= view_now - within_hours * Hour}

\* the rows array_agg keeps: FILTER (WHERE created_at >= <now at build> - within_hours)
WithinHours(p, within_hours) ==
    {i \in RowsOf(p) : user_pool[i].created_at >= view_now - within_hours * Hour}

\* _get_first_amount_stmt: coalesce((array_agg(amount) FILTER (...) OVER (PARTITION
\* BY pool_id ORDER BY created_at RANGE BETWEEN UNBOUNDED PRECEDING AND UNBOUNDED
\* FOLLOWING))[1], 0); array_agg over no row is null, and so is its element 1
get_first_amount_stmt(p, within_hours) ==
    IF WithinHours(p, within_hours) = {}
    THEN {coalesce(NULL, 0)}
    ELSE {coalesce(Num(user_pool[i].amount), 0) : i \in FirstAsc(WithinHours(p, within_hours))}

\* the window columns of one partition: every way the peers can be ordered
WindowColumns(p) ==
    [latest_amount : latest_amount(p), oldest_amount : oldest_amount(p),
     amount_24 : get_first_amount_stmt(p, 24),
     amount_48 : get_first_amount_stmt(p, 48),
     amount_72 : get_first_amount_stmt(p, 72)]

\* the pools that have a partition in user_pool
Partitions == {p \in PoolIds : RowsOf(p) # {}}

\* one choice of window columns for each partition
WindowChoices == Choices([p \in Partitions |-> WindowColumns(p)])

\* volumes_subq: one row for each user_pool row
volumes_subq(w) ==
    {[up |-> i,
      pool_id |-> Num(user_pool[i].pool_id),
      created_at |-> Num(user_pool[i].created_at),
      amount |-> Num(user_pool[i].amount),
      latest_amount |-> w[user_pool[i].pool_id].latest_amount,
      oldest_amount |-> w[user_pool[i].pool_id].oldest_amount,
      amount_24 |-> w[user_pool[i].pool_id].amount_24,
      amount_48 |-> w[user_pool[i].pool_id].amount_48,
      amount_72 |-> w[user_pool[i].pool_id].amount_72] : i \in UserPoolIds}

\* the all-null row an outer join supplies for a pool without a match
NullRow ==
    [up |-> 0, pool_id |-> NULL, created_at |-> NULL, amount |-> NULL,
     latest_amount |-> NULL, oldest_amount |-> NULL,
     amount_24 |-> NULL, amount_48 |-> NULL, amount_72 |-> NULL]

\* select_from(Pool).outerjoin(volumes_subq, volumes_subq.c.pool_id == Pool.id)
outerjoin(subq) ==
    UNION {{[id |-> p, token |-> pool[p].token, sub |-> r] :
                r \in {x \in subq : x.pool_id = Num(p)}} : p \in PoolIds}
    \cup
    {[id |-> p, token |-> pool[p].token, sub |-> NullRow] :
        p \in {q \in PoolIds : \A x \in subq : x.pool_id # Num(q)}}

\* the select list of build()
SelectColumns(j) ==
    [id |-> j.id, token |-> j.token,
     volume |-> Minus(j.sub.latest_amount, j.sub.oldest_amount),
     volume_24 |-> Minus(j.sub.latest_amount, j.sub.amount_24),
     volume_48 |-> Minus(j.sub.latest_amount, j.sub.amount_48),
     volume_72 |-> Minus(j.sub.latest_amount, j.sub.amount_72)]

\* the values of S in ascending order
RECURSIVE Ascending(_)
Ascending(S) ==
    IF S = {} THEN <<>>
    ELSE LET m == CHOOSE x \in S : \A y \in S : x <= y
         IN <<m>> \o Ascending(S \ {m})

\* ORDER BY volumes_subq.pool_id: the keys ascending, null last
DistinctKeys(J) ==
    LET ks == {j.sub.pool_id : j \in J}
        vs == Ascending({k.val : k \in {x \in ks : ~x.null}})
    IN [i \in DOMAIN vs |-> Num(vs[i])] \o (IF NULL \in ks THEN <<NULL>> ELSE <<>>)

\* DISTINCT ON (volumes_subq.pool_id) keeps the first row of each set of rows
\* with equal pool_id (nulls are equal here) under ORDER BY pool_id,
\* created_at DESC; rows of equal created_at (or null) may come in any order
FirstOfKey(k, J) ==
    LET G == {j \in J : j.sub.pool_id = k}
    IN {j \in G : \A x \in G : x.sub.created_at.null \/ j.sub.created_at.val >= x.sub.created_at.val}

RECURSIVE distinct(_, _)
distinct(keys, J) ==
    IF keys = <<>> THEN {<<>>}
    ELSE {<<SelectColumns(j)>> \o rest :
            j \in FirstOfKey(Head(keys), J), rest \in distinct(Tail(keys), J)}

\* _PoolStatisticViewQueryBuilder.build: every result the query can return
build ==
    UNION {distinct(DistinctKeys(outerjoin(volumes_subq(w))), outerjoin(volumes_subq(w))) :
            w \in WindowChoices}

----------------------------------------------------------------------------
(* PoolCRUD.fetch_all_with_amount_delta *)

\* select(UserPool.amount).where(pool_id == p.id).order_by(created_at.desc())
\* .limit(1): every row set the lateral subquery can yield for pool p
latest_amount_per_day_subq(p) ==
    IF RowsOf(p) = {} THEN {{}}
    ELSE {{Num(user_pool[i].amount)} : i \in FirstDesc(RowsOf(p))}

\* the filter with > in the place of >=
WithinDeltaStrict(p, amount_for_delta) ==
    {i \in RowsOf(p) : user_pool[i].created_at > now - amount_for_delta}

\* the filter on pool_id alone
WithinDeltaAnyTime(p, amount_for_delta) == RowsOf(p)

\* the rows that pass created_at >= now() - amount_for_delta AND pool_id == p.id
WithinDelta(p, amount_for_delta) ==
    {i \in RowsOf(p) : user_pool[i].created_at >= now - amount_for_delta}

\* ... .order_by(created_at.asc()).limit(1)
earliest_amount_per_day_subq(p, amount_for_delta) ==
    IF WithinDelta(p, amount_for_delta) = {} THEN {{}}
    ELSE {{Num(user_pool[i].amount)} : i \in FirstAsc(WithinDelta(p, amount_for_delta))}

\* one choice of the two lateral row sets for each pool
LateralChoices(amount_for_delta) ==
    LET C(p) == [latest : latest_amount_per_day_subq(p),
                 earliest : earliest_amount_per_day_subq(p, amount_for_delta)]
    IN Choices([p \in PoolIds |-> C(p)])

\* outerjoin(subquery, true): the rows of the subquery, or one null
OrNull(rows) == IF rows = {} THEN {NULL} ELSE rows

\* an inner join in the place of outerjoin(up, ...)
join_up(p) == {[up |-> i, amount |-> Num(user_pool[i].amount)] : i \in RowsOf(p)}

\* outerjoin(up, up.pool_id == p.id): the user_pool rows of p, or one null row
outerjoin_up(p) ==
    IF RowsOf(p) = {} THEN {[up |-> 0, amount |-> NULL]}
    ELSE {[up |-> i, amount |-> Num(user_pool[i].amount)] : i \in RowsOf(p)}

\* select_from(p).outerjoin(latest).outerjoin(earliest).outerjoin(up)
JoinedRows(c) ==
    UNION {{[id |-> p, latest |-> l, earliest |-> e, up |-> u.up, amount |-> u.amount] :
                l \in OrNull(c[p].latest), e \in OrNull(c[p].earliest),
                u \in outerjoin_up(p)} : p \in PoolIds}

\* sum(DISTINCT up.amount) in the place of sum(up.amount)
sum_distinct(R) ==
    LET vals == {r.amount.val : r \in {x \in R : ~x.amount.null}}
        F[S \in SUBSET vals] ==
            IF S = {} THEN 0 ELSE LET v == CHOOSE x \in S : TRUE IN v + F[S \ {v}]
    IN IF vals = {} THEN NULL ELSE Num(F[vals])

\* sum(up.amount): null over no non-null value
RECURSIVE sum(_)
sum(R) ==
    IF R = {} THEN NULL
    ELSE LET r == CHOOSE x \in R : TRUE
             rest == sum(R \ {r})
         IN IF r.amount.null THEN rest
            ELSE IF rest.null THEN r.amount
            ELSE Num(r.amount.val + rest.val)

\* group_by(p.id, latest.amount, earliest.amount) and the select list
group_by(J) ==
    LET keys == {[id |-> j.id, latest |-> j.latest, earliest |-> j.earliest] : j \in J}
        G(k) == {j \in J : j.id = k.id /\ j.latest = k.latest /\ j.earliest = k.earliest}
    IN {[id |-> k.id, latest |-> k.latest, earliest |-> k.earliest,
         total_amount |-> coalesce(sum(G(k)), 0),
         amount_delta_per_day |-> coalesce(Minus(k.latest, k.earliest), 0)] : k \in keys}

\* tuple(row): the selected columns (p, total_amount, amount_delta_per_day)
tuple(g) ==
    [id |-> g.id, token |-> pool[g.id].token, risk_status |-> pool[g.id].risk_status,
     total_amount |-> g.total_amount, amount_delta_per_day |-> g.amount_delta_per_day]

\* res.all(): the rows of S as a list; the statement has no ORDER BY
RECURSIVE all(_)
all(S) ==
    IF S = {} THEN {<<>>}
    ELSE UNION {{<<tuple(x)>> \o rest : rest \in all(S \ {x})} : x \in S}

\* every result fetch_all_with_amount_delta(amount_for_delta) can return
fetch_all_with_amount_delta(amount_for_delta) ==
    UNION {all(group_by(JoinedRows(c))) : c \in LateralChoices(amount_for_delta)}

----------------------------------------------------------------------------
\* the requests that read the statistics at the same time
Readers == {1, 2}

\* a reader with no statement in flight
NoStatement == [op |-> "idle", delta |-> 0, rows |-> <<>>]

\* the processes that set the schema up or tear it down
Procs == {1, 2}

\* a process that runs no DDL
NoSetup == [op |-> "idle", pc |-> "idle", saw |-> FALSE]

\* the state outside the pool statistics before anything ran
InitExt ==
    /\ margin_position = <<>>
    /\ blacklisted_tokens = {}
    /\ cookies = {}
    /\ range_ = <<>>
    /\ frame = <<>>
    /\ setup = [p \in Procs |-> NoSetup]

\* a writer with no open session
NoSession == [op |-> "idle", id |-> 0, user_id |-> "", pool_id |-> 0, amount |-> 0]

Init ==
    /\ pool = <<>>
    /\ user_pool = <<>>
    /\ now = 0
    /\ view_now = 0
    /\ ret = [op |-> "none", id |-> 0, arg |-> 0, rows |-> <<>>]
    /\ view_names = {"pool_statistic_view"}
    /\ has_tables = TRUE
    /\ session = NoSession
    /\ reader = [r \in Readers |-> NoStatement]
    /\ interval_delta = [days |-> 0, seconds |-> 0, microseconds |-> 0]
    /\ type_ = "PRECEDING"
    /\ range_interval = <<>>
    /\ InitExt

\* PoolCRUD.create_pool
create_pool(token, risk_status) ==
    /\ has_tables
    /\ Len(pool) < MaxPools
    /\ pool' = Append(pool, [token |-> token, risk_status |-> risk_status])
    /\ ret' = [op |-> "create_pool", id |-> Len(pool) + 1, arg |-> 0, rows |-> <<>>]
    /\ UNCHANGED <<user_pool, now, view_now, non_pool_vars>>

\* UserPoolCRUD.create_user_pool; the foreign key user_pool.pool_id -> pool.id
\* admits existing pools only, created_at is the time of the insert
create_user_pool(user_id, pool_id, amount) ==
    /\ has_tables
    /\ Len(user_pool) < MaxUserPools
    /\ pool_id \in PoolIds
    /\ user_pool' = Append(user_pool,
            [user_id |-> user_id, pool_id |-> pool_id, amount |-> amount,
             created_at |-> now])
    /\ ret' = [op |-> "create_user_pool", id |-> Len(user_pool) + 1,
               arg |-> amount, rows |-> <<>>]
    /\ UNCHANGED <<pool, now, view_now, non_pool_vars>>

\* a session adding a UserPool with an explicit created_at in the past
add_user_pool_at(user_id, pool_id, amount, age) ==
    /\ has_tables
    /\ Len(user_pool) < MaxUserPools
    /\ pool_id \in PoolIds
    /\ user_pool' = Append(user_pool,
            [user_id |-> user_id, pool_id |-> pool_id, amount |-> amount,
             created_at |-> now - age])
    /\ ret' = [op |-> "add_user_pool_at", id |-> Len(user_pool) + 1,
               arg |-> amount, rows |-> <<>>]
    /\ UNCHANGED <<pool, now, view_now, non_pool_vars>>

\* update_user_pool that also stamps the row with the time of the update
update_user_pool_touch(user_pool_id, amount) ==
    /\ has_tables
    /\ IF user_pool_id \notin UserPoolIds
       THEN /\ ret' = [op |-> "update_user_pool", id |-> 0, arg |-> 0, rows |-> <<>>]
            /\ UNCHANGED user_pool
       ELSE /\ user_pool' = IF amount # 0
                            THEN [user_pool EXCEPT ![user_pool_id].amount = amount,
                                                   ![user_pool_id].created_at = now]
                            ELSE user_pool
            /\ ret' = [op |-> "update_user_pool", id |-> user_pool_id,
                       arg |-> user_pool'[user_pool_id].amount, rows |-> <<>>]
    /\ UNCHANGED <<pool, now, view_now, non_pool_vars>>

\* UserPoolCRUD.update_user_pool: None for an unknown id; `if amount:` skips
\* the assignment for a falsy amount
update_user_pool(user_pool_id, amount) ==
    /\ has_tables
    /\ IF user_pool_id \notin UserPoolIds
       THEN /\ ret' = [op |-> "update_user_pool", id |-> 0, arg |-> 0, rows |-> <<>>]
            /\ UNCHANGED user_pool
       ELSE /\ user_pool' = IF amount # 0
                            THEN [user_pool EXCEPT ![user_pool_id].amount = amount]
                            ELSE user_pool
            /\ ret' = [op |-> "update_user_pool", id |-> user_pool_id,
                       arg |-> user_pool'[user_pool_id].amount, rows |-> <<>>]
    /\ UNCHANGED <<pool, now, view_now, non_pool_vars>>

\* select(PoolStatisticDBView)
select_view ==
    /\ "pool_statistic_view" \in view_names
    /\ \E r \in build : ret' = [op |-> "select_view", id |-> 0, arg |-> 0, rows |-> r]
    /\ UNCHANGED <<pool, user_pool, now, view_now, non_pool_vars>>

\* PoolCRUD.fetch_all_with_amount_delta(amount_for_delta), as get_pools_stat calls it
get_pools_stat(delta) ==
    /\ has_tables
    /\ \E r \in fetch_all_with_amount_delta(delta) :
          ret' = [op |-> "get_pools_stat", id |-> 0, arg |-> delta, rows |-> r]
    /\ UNCHANGED <<pool, user_pool, now, view_now, non_pool_vars>>

\* time passes
Tick(t) ==
    /\ t > now
    /\ now' = t
    /\ ret' = [op |-> "none", id |-> 0, arg |-> 0, rows |-> <<>>]
    /\ UNCHANGED <<pool, user_pool, view_now, non_pool_vars>>

Next ==
    \/ \E pi \in PoolInputs : create_pool(pi[1], pi[2])
    \/ \E u \in UserIds, p \in 1..MaxPools, a \in Amounts : create_user_pool(u, p, a)
    \/ \E u \in UserIds, p \in 1..MaxPools, a \in Amounts, g \in Ages :
          add_user_pool_at(u, p, a, g)
    \/ \E i \in 1..(MaxUserPools + 1), a \in Amounts : update_user_pool(i, a)
    \/ select_view
    \/ \E d \in Deltas : get_pools_stat(d)
    \/ \E t \in Instants : Tick(t)

Spec == Init /\ [][Next]_vars

----------------------------------------------------------------------------
(* Sessions of the new_mock_pools_with_session fixture *)

\* delete(UserPool), delete(Pool), session.add_all(mock_pools), flush: one
\* pool with the user_pools ups, each created hours before now
new_mock_pools_with_session(token, risk_status, ups) ==
    /\ has_tables
    /\ pool' = <<[token |-> token, risk_status |-> risk_status]>>
    /\ user_pool' = [i \in DOMAIN ups |->
            [user_id |-> "u1", pool_id |-> 1, amount |-> ups[i][1],
             created_at |-> now - ups[i][2] * Hour]]
    /\ ret' = [op |-> "new_mock_pools_with_session", id |-> 1, arg |-> 0, rows |-> <<>>]
    /\ UNCHANGED <<now, view_now, non_pool_vars>>

NextMock ==
    \/ \E pi \in PoolInputs, ups \in MockUserPools :
          new_mock_pools_with_session(pi[1], pi[2], ups)
    \/ select_view
    \/ \E d \in Deltas : get_pools_stat(d)
    \/ \E t \in MockInstants : Tick(t)

SpecMock == Init /\ [][NextMock]_vars

----------------------------------------------------------------------------
(* The lifecycle of the view: create_view and the metadata events *)

ViewName == "pool_statistic_view"

\* _view_exists: ddl.name in sa.inspect(bind).get_view_names()
view_exists(name) == name \in view_names

\* _view_doesnt_exist without the not
view_doesnt_exist_inverted(name) == view_exists(name)

\* _view_doesnt_exist
view_doesnt_exist(name) == ~view_exists(name)

\* executing CREATE VIEW name AS ...: an error when the view exists
CreateView(name) ==
    [ok |-> name \notin view_names, executed |-> 1, view_names |-> view_names \cup {name}]

\* executing DROP VIEW name: an error when there is no such view
DropView(name) ==
    [ok |-> name \in view_names, executed |-> 1, view_names |-> view_names \ {name}]

\* ddl.execute_if(callable_=...): the DDL runs only when the callable holds
execute_if(callable_, ddl) ==
    IF callable_ THEN ddl ELSE [ok |-> TRUE, executed |-> 0, view_names |-> view_names]

\* metadata.create_all inside engine.begin(): the missing tables are created,
\* then the after_create listener runs; an error rolls everything back
create_all ==
    LET r == execute_if(view_doesnt_exist(ViewName), CreateView(ViewName))
    IN /\ IF r.ok
          THEN /\ has_tables' = TRUE
               /\ view_names' = r.view_names
               /\ ret' = [op |-> "create_all", id |-> 0, arg |-> r.executed, rows |-> <<>>]
          ELSE /\ ret' = [op |-> "ProgrammingError", id |-> 0, arg |-> r.executed, rows |-> <<>>]
               /\ UNCHANGED <<has_tables, view_names>>
       /\ UNCHANGED <<pool, user_pool, now, view_now, session, reader,
                      interval_delta, type_, range_interval, ext_vars>>

\* metadata.drop_all inside engine.begin(): the before_drop listener runs,
\* then the tables are dropped with their rows
drop_all ==
    LET r == execute_if(view_exists(ViewName), DropView(ViewName))
    IN /\ IF r.ok
          THEN /\ has_tables' = FALSE
               /\ view_names' = r.view_names
               /\ pool' = <<>>
               /\ user_pool' = <<>>
               /\ ret' = [op |-> "drop_all", id |-> 0, arg |-> r.executed, rows |-> <<>>]
          ELSE /\ ret' = [op |-> "ProgrammingError", id |-> 0, arg |-> r.executed, rows |-> <<>>]
               /\ UNCHANGED <<has_tables, view_names, pool, user_pool>>
       /\ UNCHANGED <<now, view_now, session, reader, interval_delta, type_,
                      range_interval, ext_vars>>

NextView ==
    \/ create_all
    \/ drop_all
    \/ \E pi \in PoolInputs : create_pool(pi[1], pi[2])
    \/ \E u \in UserIds, p \in 1..MaxPools, a \in Amounts : create_user_pool(u, p, a)
    \/ select_view
    \/ \E t \in Instants : Tick(t)

SpecView == Init /\ [][NextView]_vars

----------------------------------------------------------------------------
(* RangeInterval *)

Micro == 1000000

Day == 24 * Hour

RangeTypes == {"PRECEDING", "FOLLOWING"}

\* datetime.timedelta, normalised as Python keeps it: days of either sign,
\* 0 <= seconds < Day, 0 <= microseconds < Micro
timedelta(secs, micros) ==
    [days |-> secs \div Day, seconds |-> secs % Day, microseconds |-> micros]

\* the durations constructed: a few seconds around zero and the horizons, of
\* either sign, with and without a fraction of a second
Durations ==
    {timedelta(secs, micros) :
        secs \in (-4..4) \cup {sgn * h * Hour : sgn \in {-1, 1}, h \in {24, 48, 72}},
        micros \in {0, 1, Micro \div 2, Micro - 1}}

\* timedelta.total_seconds(): the float whole + micros / Micro
total_seconds(d) ==
    [whole |-> d.days * Day + d.seconds, micros |-> d.microseconds]

\* -x of a float
neg(x) ==
    IF x.micros = 0 THEN [whole |-> -x.whole, micros |-> 0]
    ELSE [whole |-> -x.whole - 1, micros |-> Micro - x.micros]

\* math.floor(x) in the place of int(x)
floor(x) == x.whole

\* int(x) of a float: truncation towards zero
int(x) == IF x.whole >= 0 \/ x.micros = 0 THEN x.whole ELSE x.whole + 1

\* RangeInterval.__new__
RangeInterval(d, t) ==
    int(IF t = "FOLLOWING" THEN total_seconds(d) ELSE neg(total_seconds(d)))

InitRange ==
    /\ pool = <<>>
    /\ user_pool = <<>>
    /\ now = 0
    /\ view_now = 0
    /\ ret = [op |-> "none", id |-> 0, arg |-> 0, rows |-> <<>>]
    /\ view_names = {"pool_statistic_view"}
    /\ has_tables = TRUE
    /\ session = NoSession
    /\ reader = [r \in Readers |-> NoStatement]
    /\ interval_delta \in Durations
    /\ type_ \in RangeTypes
    /\ range_interval = <<>>
    /\ InitExt

\* RangeInterval(delta, type_) is constructed
new_RangeInterval ==
    /\ range_interval = <<>>
    /\ range_interval' = <<RangeInterval(interval_delta, type_)>>
    /\ UNCHANGED <<pool, user_pool, now, view_now, ret, view_names, has_tables,
                   session, reader, interval_delta, type_, ext_vars>>

NextRange == new_RangeInterval

SpecRange == InitRange /\ [][NextRange]_vars

----------------------------------------------------------------------------
(* Sessions of readers and writers side by side *)

\* create_user_pool up to db.add(user_pool): the new row is pending in the
\* session, the store has not seen it
session_add(user_id, pool_id, amount) ==
    /\ has_tables
    /\ session = NoSession
    /\ Len(user_pool) < MaxUserPools
    /\ pool_id \in PoolIds
    /\ session' = [op |-> "add", id |-> 0, user_id |-> user_id,
                   pool_id |-> pool_id, amount |-> amount]
    /\ ret' = [op |-> "none", id |-> 0, arg |-> 0, rows |-> <<>>]
    /\ UNCHANGED <<pool, user_pool, now, view_now, view_names, has_tables, reader,
                   interval_delta, type_, range_interval, ext_vars>>

\* update_user_pool up to the assignment: db.get, None for an unknown id,
\* else the new amount is held by the session
session_get(user_pool_id, amount) ==
    /\ has_tables
    /\ session = NoSession
    /\ IF user_pool_id \notin UserPoolIds
       THEN /\ ret' = [op |-> "update_user_pool", id |-> 0, arg |-> 0, rows |-> <<>>]
            /\ UNCHANGED session
       ELSE /\ session' = [op |-> "get", id |-> user_pool_id,
                           user_id |-> user_pool[user_pool_id].user_id,
                           pool_id |-> user_pool[user_pool_id].pool_id,
                           amount |-> amount]
            /\ ret' = [op |-> "none", id |-> 0, arg |-> 0, rows |-> <<>>]
    /\ UNCHANGED <<pool, user_pool, now, view_now, view_names, has_tables, reader,
                   interval_delta, type_, range_interval, ext_vars>>

\* db.commit(), db.refresh(user_pool), return: what the session holds is
\* flushed and committed at once
session_commit ==
    /\ session # NoSession
    /\ IF session.op = "add"
       THEN /\ user_pool' = Append(user_pool,
                    [user_id |-> session.user_id, pool_id |-> session.pool_id,
                     amount |-> session.amount, created_at |-> now])
            /\ ret' = [op |-> "create_user_pool", id |-> Len(user_pool) + 1,
                       arg |-> session.amount, rows |-> <<>>]
       ELSE /\ user_pool' = IF session.amount # 0
                            THEN [user_pool EXCEPT ![session.id].amount = session.amount]
                            ELSE user_pool
            /\ ret' = [op |-> "update_user_pool", id |-> session.id,
                       arg |-> user_pool'[session.id].amount, rows |-> <<>>]
    /\ session' = NoSession
    /\ UNCHANGED <<pool, now, view_now, view_names, has_tables, reader,
                   interval_delta, type_, range_interval, ext_vars>>

\* db.execute(stmt) reaches the store: the one statement is evaluated on the
\* snapshot of the committed rows taken when it starts
execute(r, amount_for_delta) ==
    /\ has_tables
    /\ reader[r] = NoStatement
    /\ \E rows \in fetch_all_with_amount_delta(amount_for_delta) :
          reader' = [reader EXCEPT ![r] = [op |-> "executing",
                                           delta |-> amount_for_delta, rows |-> rows]]
    /\ ret' = [op |-> "none", id |-> 0, arg |-> 0, rows |-> <<>>]
    /\ UNCHANGED <<pool, user_pool, now, view_now, view_names, has_tables, session,
                   interval_delta, type_, range_interval, ext_vars>>

\* a read that takes total_amount in a statement of its own, when the rows
\* are fetched
result_all_second_statement(r) ==
    /\ reader[r].op = "executing"
    /\ ret' = [op |-> "get_pools_stat", id |-> r, arg |-> reader[r].delta,
               rows |-> [i \in DOMAIN reader[r].rows |->
                           [reader[r].rows[i] EXCEPT
                               !.total_amount = coalesce(sum(outerjoin_up(reader[r].rows[i].id)), 0)]]]
    /\ reader' = [reader EXCEPT ![r] = NoStatement]
    /\ UNCHANGED <<pool, user_pool, now, view_now, view_names, has_tables, session,
                   interval_delta, type_, range_interval, ext_vars>>

\* res.all() and the return: the rows of the statement reach the caller
result_all(r) ==
    /\ reader[r].op = "executing"
    /\ ret' = [op |-> "get_pools_stat", id |-> r, arg |-> reader[r].delta,
               rows |-> reader[r].rows]
    /\ reader' = [reader EXCEPT ![r] = NoStatement]
    /\ UNCHANGED <<pool, user_pool, now, view_now, view_names, has_tables, session,
                   interval_delta, type_, range_interval, ext_vars>>

\* the delta of a request that names none
DefaultDelta == 24 * Hour

\* one pool exists, with no contribution yet
InitTxn ==
    /\ pool = <<[token |-> "BTC", risk_status |-> "low"]>>
    /\ user_pool = <<>>
    /\ now = 0
    /\ view_now = 0
    /\ ret = [op |-> "none", id |-> 0, arg |-> 0, rows |-> <<>>]
    /\ view_names = {"pool_statistic_view"}
    /\ has_tables = TRUE
    /\ session = NoSession
    /\ reader = [r \in Readers |-> NoStatement]
    /\ interval_delta = [days |-> 0, seconds |-> 0, microseconds |-> 0]
    /\ type_ = "PRECEDING"
    /\ range_interval = <<>>
    /\ InitExt

NextTxn ==
    \/ \E u \in UserIds, p \in 1..MaxPools, a \in Amounts : session_add(u, p, a)
    \/ \E i \in 1..(MaxUserPools + 1), a \in Amounts : session_get(i, a)
    \/ session_commit
    \/ \E r \in Readers : execute(r, DefaultDelta)
    \/ \E r \in Readers : result_all(r)
    \/ \E t \in Instants : Tick(t)

SpecTxn == InitTxn /\ [][NextTxn]_vars

----------------------------------------------------------------------------
(* Margin positions *)

MaxPositions == 2

\* an optional field of MarginPositionUpdate that was not provided
None == [null |-> TRUE, val |-> 0]

\* the multipliers a caller passes: the ends of the range, one inside, one
\* beyond either end
Multipliers == {0, 1, 5, 20, 21}

\* borrowed amounts
BorrowedAmounts == {100}

\* the update_data a caller passes
UpdateData ==
    [borrowed_amount : {None, Num(50)},
     multiplier : {None} \cup {Num(m) : m \in Multipliers}]

PositionIds == DOMAIN margin_position

\* MarginPositionCRUD.open_margin_position: the entry is written as given,
\* with the status a new position has
open_margin_position(borrowed_amount, multiplier) ==
    /\ Len(margin_position) < MaxPositions
    /\ margin_position' = Append(margin_position,
            [borrowed_amount |-> borrowed_amount, multiplier |-> multiplier,
             status |-> "OPEN"])
    /\ ret' = [op |-> "open_margin_position", id |-> Len(margin_position) + 1,
               arg |-> multiplier, rows |-> <<>>]
    /\ UNCHANGED <<pool, user_pool, now, view_now, view_names, has_tables, session,
                   reader, interval_delta, type_, range_interval,
                   blacklisted_tokens, cookies, range_, frame, setup>>

\* update_margin_position without the check of the status
update_margin_position_any_status(position_id, update_data) ==
    /\ IF position_id \notin PositionIds
       THEN /\ ret' = [op |-> "update_margin_position", id |-> 0, arg |-> 0,
                       rows |-> <<>>]
            /\ UNCHANGED margin_position
       ELSE IF /\ ~update_data.multiplier.null
               /\ (update_data.multiplier.val < 1 \/ update_data.multiplier.val > 20)
       THEN /\ ret' = [op |-> "ValueError", id |-> position_id,
                       arg |-> "Multiplier must be between 1 and 20", rows |-> <<>>]
            /\ UNCHANGED margin_position
       ELSE /\ margin_position' = [margin_position EXCEPT
                    ![position_id].borrowed_amount =
                        IF update_data.borrowed_amount.null THEN @
                        ELSE update_data.borrowed_amount.val,
                    ![position_id].multiplier =
                        IF update_data.multiplier.null THEN @
                        ELSE update_data.multiplier.val]
            /\ ret' = [op |-> "update_margin_position", id |-> position_id,
                       arg |-> margin_position'[position_id].multiplier, rows |-> <<>>]
    /\ UNCHANGED <<pool, user_pool, now, view_now, view_names, has_tables, session,
                   reader, interval_delta, type_, range_interval,
                   blacklisted_tokens, cookies, range_, frame, setup>>

\* MarginPositionCRUD.update_margin_position
update_margin_position(position_id, update_data) ==
    /\ IF position_id \notin PositionIds
       THEN /\ ret' = [op |-> "update_margin_position", id |-> 0, arg |-> 0,
                       rows |-> <<>>]
            /\ UNCHANGED margin_position
       ELSE IF margin_position[position_id].status = "CLOSED"
       THEN /\ ret' = [op |-> "ValueError", id |-> position_id,
                       arg |-> "Cannot update a closed margin position", rows |-> <<>>]
            /\ UNCHANGED margin_position
       ELSE IF /\ ~update_data.multiplier.null
               /\ (update_data.multiplier.val < 1 \/ update_data.multiplier.val > 20)
       THEN /\ ret' = [op |-> "ValueError", id |-> position_id,
                       arg |-> "Multiplier must be between 1 and 20", rows |-> <<>>]
            /\ UNCHANGED margin_position
       ELSE /\ margin_position' = [margin_position EXCEPT
                    ![position_id].borrowed_amount =
                        IF update_data.borrowed_amount.null THEN @
                        ELSE update_data.borrowed_amount.val,
                    ![position_id].multiplier =
                        IF update_data.multiplier.null THEN @
                        ELSE update_data.multiplier.val]
            /\ ret' = [op |-> "update_margin_position", id |-> position_id,
                       arg |-> margin_position'[position_id].multiplier, rows |-> <<>>]
    /\ UNCHANGED <<pool, user_pool, now, view_now, view_names, has_tables, session,
                   reader, interval_delta, type_, range_interval,
                   blacklisted_tokens, cookies, range_, frame, setup>>

\* close_margin_position that reopens a position found closed
close_margin_position_toggle(position_id) ==
    /\ IF position_id \notin PositionIds
       THEN /\ ret' = [op |-> "close_margin_position", id |-> 0, arg |-> "None",
                       rows |-> <<>>]
            /\ UNCHANGED margin_position
       ELSE /\ margin_position' = [margin_position EXCEPT ![position_id].status =
                    IF @ = "CLOSED" THEN "OPEN" ELSE "CLOSED"]
            /\ ret' = [op |-> "close_margin_position", id |-> position_id,
                       arg |-> margin_position'[position_id].status, rows |-> <<>>]
    /\ UNCHANGED <<pool, user_pool, now, view_now, view_names, has_tables, session,
                   reader, interval_delta, type_, range_interval,
                   blacklisted_tokens, cookies, range_, frame, setup>>

\* MarginPositionCRUD.close_margin_position: None for an unknown id
close_margin_position(position_id) ==
    /\ IF position_id \notin PositionIds
       THEN /\ ret' = [op |-> "close_margin_position", id |-> 0, arg |-> "None",
                       rows |-> <<>>]
            /\ UNCHANGED margin_position
       ELSE /\ margin_position' = [margin_position EXCEPT ![position_id].status = "CLOSED"]
            /\ ret' = [op |-> "close_margin_position", id |-> position_id,
                       arg |-> margin_position'[position_id].status, rows |-> <<>>]
    /\ UNCHANGED <<pool, user_pool, now, view_now, view_names, has_tables, session,
                   reader, interval_delta, type_, range_interval,
                   blacklisted_tokens, cookies, range_, frame, setup>>

NextMargin ==
    \/ \E b \in BorrowedAmounts, m \in Multipliers : open_margin_position(b, m)
    \/ \E i \in 1..(MaxPositions + 1), u \in UpdateData : update_margin_position(i, u)
    \/ \E i \in 1..(MaxPositions + 1) : close_margin_position(i)

SpecMargin == Init /\ [][NextMargin]_vars

----------------------------------------------------------------------------
(* Admin sessions: login, logout, refresh *)

\* the clients an admin uses
Clients == {"c1", "c2"}

\* the refresh tokens create_refresh_token issues to the admin
Tokens == {"t1", "t2", "t3"}

\* no refresh_token cookie in the request
NoToken == ""

\* TokenBlacklistService.is_blacklisted
is_blacklisted(token) == token \in blacklisted_tokens

\* the admins' clients hold no cookie
InitAuth ==
    /\ pool = <<>>
    /\ user_pool = <<>>
    /\ now = 0
    /\ view_now = 0
    /\ ret = [op |-> "none", id |-> 0, arg |-> 0, rows |-> <<>>]
    /\ view_names = {"pool_statistic_view"}
    /\ has_tables = TRUE
    /\ session = NoSession
    /\ reader = [r \in Readers |-> NoStatement]
    /\ interval_delta = [days |-> 0, seconds |-> 0, microseconds |-> 0]
    /\ type_ = "PRECEDING"
    /\ range_interval = <<>>
    /\ margin_position = <<>>
    /\ blacklisted_tokens = {}
    /\ cookies = [c \in Clients |-> NoToken]
    /\ range_ = <<>>
    /\ frame = <<>>
    /\ setup = [p \in Procs |-> NoSetup]

\* login_admin with the admin's credentials: the refresh token is set as
\* the refresh_token cookie of the client
login_admin(c, refresh_token) ==
    /\ cookies' = [cookies EXCEPT ![c] = refresh_token]
    /\ ret' = [op |-> "login_admin", id |-> 200, arg |-> refresh_token, rows |-> <<c>>]
    /\ UNCHANGED <<pool, user_pool, now, view_now, view_names, has_tables, session,
                   reader, interval_delta, type_, range_interval, margin_position,
                   blacklisted_tokens, range_, frame, setup>>

\* logout_admin: 401 without an authenticated admin, else the refresh_token
\* cookie is deleted at the client; arg is the refresh token of the request
logout_admin(c, authenticated) ==
    /\ IF ~authenticated
       THEN /\ ret' = [op |-> "logout_admin", id |-> 401, arg |-> cookies[c],
                       rows |-> <<c>>]
            /\ UNCHANGED <<cookies, blacklisted_tokens>>
       ELSE /\ cookies' = [cookies EXCEPT ![c] = NoToken]
            /\ ret' = [op |-> "logout_admin", id |-> 200, arg |-> cookies[c],
                       rows |-> <<c>>]
            /\ UNCHANGED blacklisted_tokens
    /\ UNCHANGED <<pool, user_pool, now, view_now, view_names, has_tables, session,
                   reader, interval_delta, type_, range_interval, margin_position,
                   range_, frame, setup>>

\* refresh_access_token of a request whose refresh_token cookie is
\* refresh_token, whoever sends it: 401 without the cookie, else the token is
\* decoded, the admin is found and a new access token is returned
refresh_access_token(refresh_token) ==
    /\ ret' = [op |-> "refresh_access_token",
               id |-> IF refresh_token = NoToken THEN 401 ELSE 200,
               arg |-> refresh_token, rows |-> <<>>]
    /\ UNCHANGED <<pool, user_pool, now, view_now, view_names, has_tables, session,
                   reader, interval_delta, type_, range_interval, margin_position,
                   blacklisted_tokens, cookies, range_, frame, setup>>

NextAuth ==
    \/ \E c \in Clients, t \in Tokens : login_admin(c, t)
    \/ \E c \in Clients, a \in BOOLEAN : logout_admin(c, a)
    \/ \E t \in Tokens \cup {NoToken} : refresh_access_token(t)

SpecAuth == InitAuth /\ [][NextAuth]_vars

----------------------------------------------------------------------------
(* Over._interpret_range with RangeInterval bounds *)

\* the components of a range_ tuple and of what _interpret_range returns
PyNone == [kind |-> "None", val |-> 0]
RANGE_UNBOUNDED == [kind |-> "RANGE_UNBOUNDED", val |-> 0]
RANGE_CURRENT == [kind |-> "RANGE_CURRENT", val |-> 0]
PyInt(n) == [kind |-> "int", val |-> n]
PyRangeInterval(n) == [kind |-> "RangeInterval", val |-> n]

\* the plain bounds a caller passes next to a RangeInterval
PlainBounds == {PyNone, PyInt(-2), PyInt(0), PyInt(3)}

\* isinstance(x, RangeInterval)
isinstance_RangeInterval(x) == x.kind = "RangeInterval"

\* the truth value of x in `x or y`: None and an int equal to 0 are false
truthy(x) == x.kind # "None" /\ x.val # 0

\* x or y
or(x, y) == IF truthy(x) THEN x ELSE y

\* one component through the interpretation of SQLAlchemy that the patch
\* keeps as _old_interpret_range: None is unbounded, 0 the current row
old_interpret(x) ==
    IF x.kind = "None" THEN RANGE_UNBOUNDED
    ELSE IF x.val = 0 THEN RANGE_CURRENT
    ELSE PyInt(x.val)

\* _old_interpret_range
old_interpret_range(r) == <<old_interpret(r[1]), old_interpret(r[2])>>

\* the patched _interpret_range
interpret_range(r) ==
    LET sa_lower == IF isinstance_RangeInterval(r[1]) THEN PyNone ELSE r[1]
        customer_lower == IF isinstance_RangeInterval(r[1]) THEN r[1] ELSE PyNone
        sa_upper == IF isinstance_RangeInterval(r[2]) THEN PyNone ELSE r[2]
        custom_upper == IF isinstance_RangeInterval(r[2]) THEN r[2] ELSE PyNone
        sa == old_interpret_range(<<sa_lower, sa_upper>>)
    IN <<or(customer_lower, sa[1]), or(custom_upper, sa[2])>>

\* a duration and a direction are given, nothing is constructed yet
InitFrame == InitRange

\* over(range_=(lower, upper)): each bound is the RangeInterval constructed
\* or a plain bound
over(lower, upper) ==
    /\ range_interval # <<>>
    /\ range_ = <<>>
    /\ range_' = <<lower, upper>>
    /\ UNCHANGED <<pool, user_pool, now, view_now, ret, view_names, has_tables,
                   session, reader, interval_delta, type_, range_interval,
                   margin_position, blacklisted_tokens, cookies, frame, setup>>

\* Over.__init__ calls self._interpret_range(range_)
Over_interpret_range ==
    /\ range_ # <<>>
    /\ frame = <<>>
    /\ frame' = interpret_range(range_)
    /\ UNCHANGED <<pool, user_pool, now, view_now, ret, view_names, has_tables,
                   session, reader, interval_delta, type_, range_interval,
                   margin_position, blacklisted_tokens, cookies, range_, setup>>

NextFrame ==
    \/ new_RangeInterval
    \/ \E lower, upper \in PlainBounds \cup {PyRangeInterval(range_interval[i]) :
                                                i \in DOMAIN range_interval} :
          over(lower, upper)
    \/ Over_interpret_range

SpecFrame == InitFrame /\ [][NextFrame]_vars

----------------------------------------------------------------------------
(* POST /update_user_pool *)

\* nothing was raised
NoException == [class |-> "", status_code |-> 0, detail |-> ""]

\* fastapi.HTTPException(status_code, detail)
HTTPException(status_code, detail) ==
    [class |-> "HTTPException", status_code |-> status_code, detail |-> detail]

\* an error of the session or the store while the update runs
DBError == [class |-> "SQLAlchemyError", status_code |-> 0, detail |-> ""]

\* isinstance(e, Exception): HTTPException is an Exception as well
isinstance_Exception(e) == e.class \in {"HTTPException", "SQLAlchemyError"}

\* what the body of the try block raises: the error of the update, or the
\* 404 once update_user_pool returned None
raised_in_try(user_pool_id, failed) ==
    IF failed THEN DBError
    ELSE IF user_pool_id \notin UserPoolIds
    THEN HTTPException(404, "User pool entry not found.")
    ELSE NoException

\* what leaves the try statement: `except Exception` turns what it catches
\* into the 500
raised_by_handler(user_pool_id, failed) ==
    LET e == raised_in_try(user_pool_id, failed)
    IN IF isinstance_Exception(e)
       THEN HTTPException(500, "Something went wrong while updating the user pool.")
       ELSE e

\* the update_user_pool endpoint; failed: the update raises; rows tells what
\* the update did: "raised", "None" or "updated"
api_update_user_pool(user_pool_id, amount, failed) ==
    /\ has_tables
    /\ user_pool' = IF ~failed /\ user_pool_id \in UserPoolIds /\ amount # 0
                    THEN [user_pool EXCEPT ![user_pool_id].amount = amount]
                    ELSE user_pool
    /\ LET e == raised_by_handler(user_pool_id, failed)
       IN ret' = [op |-> "api_update_user_pool",
                  id |-> IF e = NoException THEN 200 ELSE e.status_code,
                  arg |-> e.detail,
                  rows |-> <<IF failed THEN "raised"
                             ELSE IF user_pool_id \notin UserPoolIds THEN "None"
                             ELSE "updated">>]
    /\ UNCHANGED <<pool, now, view_now, non_pool_vars>>

NextApi ==
    \/ \E pi \in PoolInputs : create_pool(pi[1], pi[2])
    \/ \E u \in UserIds, p \in 1..MaxPools, a \in Amounts : create_user_pool(u, p, a)
    \/ \E i \in 1..(MaxUserPools + 1), a \in Amounts, failed \in BOOLEAN :
          api_update_user_pool(i, a, failed)
    \/ \E t \in Instants : Tick(t)

SpecApi == Init /\ [][NextApi]_vars

----------------------------------------------------------------------------
(* _get_earliest_amount_stmt: the interval-framed variant *)

\* first_value(amount) OVER (PARTITION BY pool_id ORDER BY created_at ASC
\* RANGE BETWEEN <for_interval> AND UNBOUNDED FOLLOWING) on the user_pool row
\* i: for_interval is the int of the RangeInterval, the offset of the frame
\* start from the created_at of the row (negative is PRECEDING)
get_earliest_amount_stmt(i, for_interval) ==
    LET inFrame == {j \in RowsOf(user_pool[i].pool_id) :
                       user_pool[j].created_at >= user_pool[i].created_at + for_interval}
    IN {Num(user_pool[j].amount) : j \in FirstAsc(inFrame)}

----------------------------------------------------------------------------
(* Schema processes side by side *)

\* engine.begin() and metadata.create_all or metadata.drop_all start in
\* process p
begin_setup(p, op) ==
    /\ setup[p] = NoSetup
    /\ setup' = [setup EXCEPT ![p] = [op |-> op, pc |-> "check", saw |-> FALSE]]
    /\ ret' = [op |-> "none", id |-> 0, arg |-> 0, rows |-> <<>>]
    /\ UNCHANGED <<pool, user_pool, now, view_now, view_names, has_tables, session,
                   reader, interval_delta, type_, range_interval, margin_position,
                   blacklisted_tokens, cookies, range_, frame>>

\* the callable_ of execute_if asks the catalog: _view_doesnt_exist after the
\* tables were created, _view_exists before they are dropped
check_setup(p) ==
    /\ setup[p].pc = "check"
    /\ setup' = [setup EXCEPT ![p].pc = "ddl",
                              ![p].saw = IF setup[p].op = "create_all"
                                         THEN view_doesnt_exist(ViewName)
                                         ELSE view_exists(ViewName)]
    /\ has_tables' = IF setup[p].op = "create_all" THEN TRUE ELSE has_tables
    /\ ret' = [op |-> "none", id |-> 0, arg |-> 0, rows |-> <<>>]
    /\ UNCHANGED <<pool, user_pool, now, view_now, view_names, session,
                   reader, interval_delta, type_, range_interval, margin_position,
                   blacklisted_tokens, cookies, range_, frame>>

\* the DDL runs if the callable_ said so, and the process ends: CREATE VIEW
\* on create_all, DROP VIEW and then the drop of the tables on drop_all; a
\* DDL the store refuses fails the process
ddl_setup(p) ==
    /\ setup[p].pc = "ddl"
    /\ LET r == execute_if(setup[p].saw,
                           IF setup[p].op = "create_all" THEN CreateView(ViewName)
                           ELSE DropView(ViewName))
       IN IF r.ok
          THEN /\ view_names' = r.view_names
               /\ ret' = [op |-> setup[p].op, id |-> p, arg |-> r.executed, rows |-> <<>>]
               /\ IF setup[p].op = "drop_all"
                  THEN has_tables' = FALSE /\ pool' = <<>> /\ user_pool' = <<>>
                  ELSE UNCHANGED <<has_tables, pool, user_pool>>
          ELSE /\ ret' = [op |-> "ProgrammingError", id |-> p, arg |-> r.executed,
                          rows |-> <<>>]
               /\ UNCHANGED <<view_names, has_tables, pool, user_pool>>
    /\ setup' = [setup EXCEPT ![p] = NoSetup]
    /\ UNCHANGED <<now, view_now, session, reader, interval_delta, type_,
                   range_interval, margin_position, blacklisted_tokens, cookies,
                   range_, frame>>

\* what a process runs: a setup in both, or a teardown in the first next to
\* a setup in the second
SetupOps(p) == IF p = 1 THEN {"create_all", "drop_all"} ELSE {"create_all"}

NextSetup ==
    \/ \E p \in Procs : \E op \in SetupOps(p) : begin_setup(p, op)
    \/ \E p \in Procs : check_setup(p)
    \/ \E p \in Procs : ddl_setup(p)
    \/ \E pi \in PoolInputs : create_pool(pi[1], pi[2])

SpecSetup == Init /\ [][NextSetup]_vars

----------------------------------------------------------------------------
(* What the last read returned *)

Horizons == {24, 48, 72}

IsViewRead == ret.op = "select_view"
IsStatRead == ret.op = "get_pools_stat"

\* the positions of the returned rows that belong to pool p
ReturnedFor(p) == {i \in DOMAIN ret.rows : ret.rows[i].id = p}

\* the volume_<h> column of a view row
VolumeOf(row, h) ==
    IF h = 24 THEN row.volume_24 ELSE IF h = 48 THEN row.volume_48 ELSE row.volume_72

\* the contributions of pool p created within h hours before the read
SinceNow(p, h) == {i \in RowsOf(p) : user_pool[i].created_at >= now - h * Hour}

ZERO == Num(0)

----------------------------------------------------------------------------
(* Claims *)

\* C1: a read of pool_statistic_view returns exactly one row for every
\* existing pool, also for pools without contributions and when several
\* pools have none.
C1_OneRowPerPool ==
    IsViewRead => \A p \in PoolIds : Cardinality(ReturnedFor(p)) = 1

\* C2: the view row of a pool without contributions has volume, volume_24,
\* volume_48 and volume_72 equal to numeric 0, never null.
C2_NoContributionAllZero ==
    IsViewRead =>
        \A i \in DOMAIN ret.rows :
            RowsOf(ret.rows[i].id) = {} =>
                /\ ret.rows[i].volume = ZERO
                /\ \A h \in Horizons : VolumeOf(ret.rows[i], h) = ZERO

\* C3: when a pool has a contribution created at or after now - H (boundary
\* included), volume_H is the amount of its most recently created
\* contribution minus the amount of the earliest one created at or after
\* now - H.
C3_VolumeWithinHorizon ==
    IsViewRead =>
        \A p \in PoolIds, h \in Horizons :
            SinceNow(p, h) # {} =>
                /\ ReturnedFor(p) # {}
                /\ \A i \in ReturnedFor(p) :
                      \E l \in FirstDesc(RowsOf(p)), e \in FirstAsc(SinceNow(p, h)) :
                          VolumeOf(ret.rows[i], h) =
                              Num(user_pool[l].amount - user_pool[e].amount)

\* C4: at every read the horizons are measured back from the time of the
\* read: the candidates of horizon H are the contributions created at or
\* after now - H, however long ago the view was built.
C4_HorizonFromReadTime ==
    IsViewRead =>
        \A p \in PoolIds, h \in Horizons : WithinHours(p, h) = SinceNow(p, h)

\* C5: for a pool with a contribution, volume is the amount of the
\* contribution with the greatest created_at minus the amount of the one
\* with the smallest created_at, whatever their age.
C5_VolumeAllTime ==
    IsViewRead =>
        \A p \in PoolIds :
            RowsOf(p) # {} =>
                /\ ReturnedFor(p) # {}
                /\ \A i \in ReturnedFor(p) :
                      \E l \in FirstDesc(RowsOf(p)), e \in FirstAsc(RowsOf(p)) :
                          ret.rows[i].volume =
                              Num(user_pool[l].amount - user_pool[e].amount)

\* a read of the view that returned a non-zero volume for a pool whose
\* earliest and latest contributions differ in time and amount
C5_Witness ==
    /\ IsViewRead
    /\ \E p \in PoolIds :
          /\ Cardinality(RowsOf(p)) >= 2
          /\ FirstDesc(RowsOf(p)) \cap FirstAsc(RowsOf(p)) = {}
          /\ \E i \in ReturnedFor(p) : ret.rows[i].volume = Num(100)

\* C6: for a pool with contributions but none created at or after now - H,
\* volume_H is numeric and equals the latest amount minus 0.
C6_EmptyHorizonCoalesced ==
    IsViewRead =>
        \A p \in PoolIds, h \in Horizons :
            (RowsOf(p) # {} /\ SinceNow(p, h) = {}) =>
                /\ ReturnedFor(p) # {}
                /\ \A i \in ReturnedFor(p) :
                      \E l \in FirstDesc(RowsOf(p)) :
                          VolumeOf(ret.rows[i], h) = Num(user_pool[l].amount - 0)

\* C7: for every returned pool and horizon H, volume_H is 0 when no
\* contribution other than the most recently created one was created at or
\* after now - H, and otherwise the latest amount minus the amount of the
\* earliest such contribution.
C7_VolumeAsTestExpects ==
    IsViewRead =>
        \A i \in DOMAIN ret.rows, h \in Horizons :
            LET R == RowsOf(ret.rows[i].id)
                Expect(l) ==
                    LET others == SinceNow(ret.rows[i].id, h) \ {l}
                    IN IF others = {} THEN {ZERO}
                       ELSE {Num(user_pool[l].amount - user_pool[e].amount) :
                                e \in FirstAsc(others)}
            IN IF R = {} THEN VolumeOf(ret.rows[i], h) = ZERO
               ELSE \E l \in FirstDesc(R) : VolumeOf(ret.rows[i], h) \in Expect(l)

\* C8: for a pool with exactly one contribution, of any amount and age, the
\* view reports volume = volume_24 = volume_48 = volume_72 = 0.
C8_SingleContributionAllZero ==
    IsViewRead =>
        \A i \in DOMAIN ret.rows :
            Cardinality(RowsOf(ret.rows[i].id)) = 1 =>
                /\ ret.rows[i].volume = ZERO
                /\ ret.rows[i].volume_24 = ZERO
                /\ ret.rows[i].volume_48 = ZERO
                /\ ret.rows[i].volume_72 = ZERO

\* C9: fetch_all_with_amount_delta returns exactly one record for every
\* existing pool and none else; a pool without contributions has
\* total_amount = 0 and amount_delta_per_day = 0.
C9_OneRecordPerPool ==
    IsStatRead =>
        /\ Len(ret.rows) = Cardinality(PoolIds)
        /\ \A p \in PoolIds :
              /\ Cardinality(ReturnedFor(p)) = 1
              /\ RowsOf(p) = {} =>
                    \A i \in ReturnedFor(p) :
                        /\ ret.rows[i].total_amount = ZERO
                        /\ ret.rows[i].amount_delta_per_day = ZERO

\* a statistics read over two pools, one with and one without contributions
C9_Witness ==
    /\ IsStatRead
    /\ Len(ret.rows) = 2
    /\ \E p, q \in PoolIds : RowsOf(p) = {} /\ RowsOf(q) # {}

\* C10: amount_delta_per_day is the amount of the most recently created
\* contribution minus the amount of the earliest one created within
\* [now - delta, now], and 0 when the pool has none in that range.
C10_AmountDelta ==
    IsStatRead =>
        \A i \in DOMAIN ret.rows :
            LET R == RowsOf(ret.rows[i].id)
                inRange == {u \in R : /\ user_pool[u].created_at >= now - ret.arg
                                      /\ user_pool[u].created_at <= now}
            IN IF inRange = {}
               THEN ret.rows[i].amount_delta_per_day = ZERO
               ELSE \E l \in FirstDesc(R), e \in FirstAsc(inRange) :
                       ret.rows[i].amount_delta_per_day =
                           Num(user_pool[l].amount - user_pool[e].amount)

\* a statistics read of a pool with one contribution created exactly delta
\* before the read, whose delta to the latest contribution is not 0
C10_Witness ==
    /\ IsStatRead
    /\ \E i \in DOMAIN ret.rows :
          /\ \E u \in RowsOf(ret.rows[i].id) : user_pool[u].created_at = now - ret.arg
          /\ ret.rows[i].amount_delta_per_day = Num(100)

\* a statistics read of a pool all of whose contributions are older than delta
C10_WitnessOutOfRange ==
    /\ IsStatRead
    /\ \E i \in DOMAIN ret.rows :
          /\ RowsOf(ret.rows[i].id) # {}
          /\ \A u \in RowsOf(ret.rows[i].id) : user_pool[u].created_at < now - ret.arg
          /\ \E u \in RowsOf(ret.rows[i].id) : user_pool[u].amount # 0

\* the sum of the amounts of the rows in R
RECURSIVE SumAmounts(_)
SumAmounts(R) ==
    IF R = {} THEN 0
    ELSE LET r == CHOOSE x \in R : TRUE
         IN user_pool[r].amount + SumAmounts(R \ {r})

\* C11: total_amount is the sum of the amounts of all contributions of the
\* pool, each counted once, for any number of contributions.
C11_TotalAmount ==
    IsStatRead =>
        \A i \in DOMAIN ret.rows :
            ret.rows[i].total_amount = Num(SumAmounts(RowsOf(ret.rows[i].id)))

\* a statistics read of a pool with two contributions of the same amount 100
C11_Witness ==
    /\ IsStatRead
    /\ \E i \in DOMAIN ret.rows :
          /\ Cardinality(RowsOf(ret.rows[i].id)) >= 2
          /\ \A u \in RowsOf(ret.rows[i].id) : user_pool[u].amount = 100
          /\ ret.rows[i].total_amount.val >= 200

\* the records of a result list, whatever their order
RowSet(rows) == {rows[i] : i \in DOMAIN rows}

\* C13: the same statistics read issued twice with no write in between
\* returns the same result both times.
C13_IdempotentRead ==
    [][/\ (IsViewRead /\ ret'.op = "select_view") => ret'.rows = ret.rows
       /\ (IsStatRead /\ ret'.op = "get_pools_stat" /\ ret'.arg = ret.arg) =>
              RowSet(ret'.rows) = RowSet(ret.rows)]_vars

\* C14: when contributions of a pool share a created_at, the latest and the
\* earliest are still chosen by a fixed rule, so the stored contributions
\* determine volume, volume_24, volume_48 and volume_72 of the pool.
C14_StableTieBreak ==
    \A p \in Partitions : Cardinality({SelectColumns([id |-> p, token |-> pool[p].token,
                                           sub |-> w]) : w \in WindowColumns(p)}) = 1

\* C20: update_user_pool on an existing contribution changes nothing but its
\* amount: no row is added or removed, created_at, pool_id and user_id of
\* the row and every other row stay as they were.
C20_UpdateFrame ==
    [][(ret'.op = "update_user_pool" /\ ret'.id # 0) =>
          /\ pool' = pool
          /\ DOMAIN user_pool' = DOMAIN user_pool
          /\ \A i \in DOMAIN user_pool :
                /\ user_pool'[i].created_at = user_pool[i].created_at
                /\ user_pool'[i].pool_id = user_pool[i].pool_id
                /\ user_pool'[i].user_id = user_pool[i].user_id
                /\ i # ret'.id => user_pool'[i] = user_pool[i]]_vars

\* an update returned the row it was given, in a table of two rows, after
\* time has passed since the rows were created
C20_Witness ==
    /\ ret.op = "update_user_pool"
    /\ ret.id \in UserPoolIds
    /\ ret.arg = 100
    /\ Len(user_pool) = 2
    /\ \A i \in UserPoolIds : user_pool[i].created_at < now

\* the contributions of pool 1 are exactly those of ups = <<amount, hours
\* before now>>, ...
HasUserPools(ups) ==
    /\ Len(pool) = 1
    /\ Len(user_pool) = Len(ups)
    /\ \A i \in DOMAIN ups :
          /\ user_pool[i].amount = ups[i][1]
          /\ user_pool[i].created_at = now - ups[i][2] * Hour

\* the only contributions of pool 1 were created 50 and 30 hours before now
CreatedAt50And30 ==
    /\ Len(pool) = 1
    /\ Len(user_pool) = 2
    /\ user_pool[1].created_at = now - 50 * Hour
    /\ user_pool[2].created_at = now - 30 * Hour

\* C12 as claimed: for contributions created 30 and 50 hours before now, the
\* read with delta = 48h returns another amount_delta_per_day than the read
\* with delta = 24h.
C12_DeltaChangesResult ==
    [][(/\ CreatedAt50And30
        /\ IsStatRead /\ ret.arg = 24 * Hour
        /\ ret'.op = "get_pools_stat" /\ ret'.arg = 48 * Hour) =>
           ret'.rows[1].amount_delta_per_day # ret.rows[1].amount_delta_per_day]_vars

\* C12 as amended: for contributions created 30 and 50 hours before now,
\* delta = 48h selects the contribution created 30 hours ago as earliest
\* within the window and delta = 24h selects none; amount_delta_per_day is 0
\* in both reads.
C12_DeltaChangesEarliest ==
    CreatedAt50And30 =>
        /\ earliest_amount_per_day_subq(1, 24 * Hour) = {{}}
        /\ earliest_amount_per_day_subq(1, 48 * Hour) = {{Num(user_pool[2].amount)}}
        /\ IsStatRead => ret.rows[1].amount_delta_per_day = ZERO

\* a read with delta = 48h of contributions of different amounts created 50
\* and 30 hours before now
C12_Witness ==
    /\ CreatedAt50And30
    /\ user_pool[1].amount # user_pool[2].amount
    /\ IsStatRead
    /\ ret.arg = 48 * Hour

\* the created_at of the rows the view takes as earliest within h hours
EarliestCreatedAt(p, h) == {user_pool[i].created_at : i \in FirstAsc(WithinHours(p, h))}

\* C15: the contribution taken as earliest within 72h was created no later
\* than the one taken for 48h, and that no later than the one for 24h,
\* whenever they exist; the 72h candidates contain the 48h candidates, which
\* contain the 24h candidates.
C15_HorizonNesting ==
    \A p \in PoolIds :
        /\ WithinHours(p, 24) \subseteq WithinHours(p, 48)
        /\ WithinHours(p, 48) \subseteq WithinHours(p, 72)
        /\ \A c72 \in EarliestCreatedAt(p, 72), c48 \in EarliestCreatedAt(p, 48) : c72 <= c48
        /\ \A c48 \in EarliestCreatedAt(p, 48), c24 \in EarliestCreatedAt(p, 24) : c48 <= c24

\* a pool whose earliest contributions within 72h, 48h and 24h are three
\* different rows
C15_Witness ==
    \E p \in PoolIds :
        \E c72 \in EarliestCreatedAt(p, 72), c48 \in EarliestCreatedAt(p, 48),
           c24 \in EarliestCreatedAt(p, 24) : c72 < c48 /\ c48 < c24

\* C16: for contributions (100, 80h), (150, 50h), (200, 20h), (300, 1h)
\* before now the view reports volume = 200, volume_24 = 100,
\* volume_48 = 100 and volume_72 = 150.
C16_Scenario ==
    (/\ IsViewRead
     /\ HasUserPools(<<<<100, 80>>, <<150, 50>>, <<200, 20>>, <<300, 1>>>>)) =>
        /\ Len(ret.rows) = 1
        /\ ret.rows[1].volume = Num(200)
        /\ ret.rows[1].volume_24 = Num(100)
        /\ ret.rows[1].volume_48 = Num(100)
        /\ ret.rows[1].volume_72 = Num(150)

\* C17: in any sequence of schema setups and teardowns run one after
\* another none fails; CREATE VIEW is executed exactly when the view is
\* absent and DROP VIEW exactly when it is present; after a setup the view
\* exists and after a teardown it does not.
C17_ViewLifecycle ==
    [][/\ ret'.op # "ProgrammingError"
       /\ ret'.op = "create_all" =>
             /\ (ret'.arg = 1) <=> (ViewName \notin view_names)
             /\ ViewName \notin view_names \/ view_names' = view_names
             /\ ViewName \in view_names'
       /\ ret'.op = "drop_all" =>
             /\ (ret'.arg = 1) <=> (ViewName \in view_names)
             /\ ViewName \in view_names \/ view_names' = view_names
             /\ ViewName \notin view_names']_vars

\* a teardown that found no view to drop
C17_Witness ==
    /\ ret.op = "drop_all"
    /\ ret.arg = 0
    /\ view_names = {}

\* the whole seconds of a duration, its fraction of a second dropped, with
\* the sign of the duration
WholeSeconds(d) ==
    LET secs == d.days * Day + d.seconds
    IN IF secs >= 0 THEN secs
       ELSE IF d.microseconds = 0 THEN secs ELSE secs + 1

C19_SnapshotRead ==
    /\ [](\A r \in Readers :
            /\ reader[r].op = "idle" => ENABLED execute(r, DefaultDelta)
            /\ reader[r].op = "executing" => ENABLED result_all(r))
    /\ [][\A r \in Readers :
        /\ (reader[r].op = "idle" /\ reader'[r].op = "executing") =>
              \A i \in DOMAIN reader'[r].rows :
                 LET row == reader'[r].rows[i]
                     R == RowsOf(row.id)
                     inRange == {u \in R :
                                   /\ user_pool[u].created_at >= now - reader'[r].delta
                                   /\ user_pool[u].created_at <= now}
                 IN /\ row.total_amount = Num(SumAmounts(R))
                    /\ IF inRange = {} THEN row.amount_delta_per_day = ZERO
                       ELSE \E l \in FirstDesc(R), e \in FirstAsc(inRange) :
                               row.amount_delta_per_day =
                                   Num(user_pool[l].amount - user_pool[e].amount)
        /\ (reader[r].op = "executing" /\ reader'[r].op = "executing") =>
              reader'[r] = reader[r]
        /\ (reader[r].op = "executing" /\ reader'[r].op = "idle") =>
              /\ ret'.op = "get_pools_stat"
              /\ ret'.id = r
              /\ ret'.rows = reader[r].rows
        /\ reader'[r] # reader[r] =>
              /\ pool' = pool
              /\ user_pool' = user_pool
              /\ session' = session]_vars

\* a reader got its rows after a writer committed a change of total_amount
\* during its statement, while the other reader has a statement in flight
\* and a writer holds an open session
C19_Witness ==
    /\ ret.op = "get_pools_stat"
    /\ \E i \in DOMAIN ret.rows :
          ret.rows[i].total_amount # Num(SumAmounts(RowsOf(ret.rows[i].id)))
    /\ \E r \in Readers : reader[r].op = "executing"
    /\ session # NoSession

\* C21: update_user_pool(id, amount) on an existing contribution stores and
\* returns the supplied amount, whatever it is, 0 included; for an id that
\* does not exist it returns None and changes no contribution.
C21_UpdateStoresAmount ==
    [][\A i \in 1..(MaxUserPools + 1), a \in Amounts :
          update_user_pool(i, a) =>
              IF i \in UserPoolIds
              THEN user_pool'[i].amount = a /\ ret'.arg = a
              ELSE ret'.id = 0 /\ user_pool' = user_pool]_vars

\* C22: update_margin_position on a position whose status is CLOSED raises
\* ValueError('Cannot update a closed margin position') and writes nothing:
\* borrowed_amount and multiplier stay as they were, whatever the update
\* data.
C22_ClosedNotUpdated ==
    [][\A i \in PositionIds, u \in UpdateData :
          (margin_position[i].status = "CLOSED" /\ update_margin_position(i, u)) =>
              /\ ret'.op = "ValueError"
              /\ ret'.arg = "Cannot update a closed margin position"
              /\ margin_position' = margin_position]_vars

\* an update with an admissible multiplier was refused on a closed position
\* whose multiplier is another one
C22_Witness ==
    /\ ret.op = "ValueError"
    /\ ret.arg = "Cannot update a closed margin position"
    /\ ret.id \in PositionIds
    /\ margin_position[ret.id].status = "CLOSED"
    /\ margin_position[ret.id].multiplier = 5
    /\ margin_position[ret.id].borrowed_amount = 100

\* C23: after any sequence of open_margin_position and
\* update_margin_position calls every stored margin position has a
\* multiplier between 1 and 20 inclusive.
C23_MultiplierRange ==
    \A i \in PositionIds :
        margin_position[i].multiplier >= 1 /\ margin_position[i].multiplier <= 20

\* C28: a margin position whose status is CLOSED stays CLOSED through every
\* later call, and closing a closed position returns CLOSED again.
C28_ClosedStaysClosed ==
    [][\A i \in PositionIds :
          margin_position[i].status = "CLOSED" =>
              /\ i \in DOMAIN margin_position'
              /\ margin_position'[i].status = "CLOSED"
              /\ close_margin_position(i) => ret'.arg = "CLOSED"]_vars

\* a closed position was closed once more and returned CLOSED, every stored
\* position being closed
C28_Witness ==
    /\ ret.op = "close_margin_position"
    /\ ret.id \in PositionIds
    /\ ret.arg = "CLOSED"
    /\ Len(margin_position) = 2
    /\ \A i \in PositionIds : margin_position[i].status = "CLOSED"

\* C24: after a successful admin logout the refresh token that was in use
\* is blacklisted (is_blacklisted holds for it), and a POST /refresh that
\* presents it is rejected, no new access token is issued.
C24_LogoutBlacklists ==
    /\ []((ret.op = "logout_admin" /\ ret.id = 200 /\ ret.arg # NoToken) =>
             is_blacklisted(ret.arg))
    /\ [][(/\ ret.op = "logout_admin" /\ ret.id = 200 /\ ret.arg # NoToken
           /\ ret'.op = "refresh_access_token" /\ ret'.arg = ret.arg) =>
              ret'.id = 401]_vars

\* C25: _interpret_range returns every component that is a RangeInterval, of
\* any duration, zero included, as that same RangeInterval, and every other
\* component as SQLAlchemy interprets it: None as unbounded, 0 as the
\* current row, any other integer unchanged.
C25_IntervalNotCoerced ==
    frame # <<>> =>
        \A k \in {1, 2} :
            IF range_[k].kind = "RangeInterval" THEN frame[k] = range_[k]
            ELSE IF range_[k].kind = "None" THEN frame[k] = RANGE_UNBOUNDED
            ELSE IF range_[k].val = 0 THEN frame[k] = RANGE_CURRENT
            ELSE frame[k] = range_[k]

\* the duration given is zero or negative
ZeroOrNegative(d) == d.days < 0 \/ (d.days = 0 /\ d.seconds = 0 /\ d.microseconds = 0)

\* C26: a RangeInterval built with a zero or negative duration for PRECEDING
\* and used as the lower frame bound stays a PRECEDING interval bound: the
\* lower bound of the frame is that RangeInterval, not unbounded preceding,
\* and its sign is not the sign of FOLLOWING.
C26_DegenerateLowerBound ==
    (/\ frame # <<>>
     /\ type_ = "PRECEDING"
     /\ ZeroOrNegative(interval_delta)
     /\ range_[1].kind = "RangeInterval") =>
        /\ frame[1] # RANGE_UNBOUNDED
        /\ frame[1].kind = "RangeInterval"
        /\ frame[1].val <= 0

\* C27: POST /update_user_pool answers 404 'User pool entry not found.' when
\* the contribution id does not exist, and answers 500 only when the update
\* itself raised an error.
C27_NotFoundIs404 ==
    ret.op = "api_update_user_pool" =>
        /\ ret.rows = <<"None">> =>
              ret.id = 404 /\ ret.arg = "User pool entry not found."
        /\ ret.id = 500 => ret.rows = <<"raised">>

\* C29: for every pool with contributions and every H in {24, 48, 72}, on
\* the row kept for the pool (its latest contribution) the amount of
\* _get_first_amount_stmt(within_hours=H) equals the amount of
\* _get_earliest_amount_stmt(RangeInterval(H hours)) coalesced to 0.
C29_VariantsAgree ==
    \A p \in Partitions, h \in Horizons : \A i \in FirstDesc(RowsOf(p)) :
        get_first_amount_stmt(p, h) =
            {coalesce(v, 0) :
                v \in get_earliest_amount_stmt(
                         i, RangeInterval(timedelta(h * Hour, 0), "PRECEDING"))}

\* C30: with two schema processes running side by side, in every
\* interleaving of their existence checks and DDL statements CREATE VIEW is
\* never executed while pool_statistic_view exists and DROP VIEW never
\* while it is absent, so no process fails.
C30_NoFailedDDL ==
    [][\A p \in Procs :
          (setup[p].pc = "ddl" /\ setup[p].saw /\ setup'[p] = NoSetup) =>
              /\ setup[p].op = "create_all" => ~view_exists(ViewName)
              /\ setup[p].op = "drop_all" => view_exists(ViewName)
              /\ ret'.op # "ProgrammingError"]_vars

====
